---- MODULE Spec2Model ----
(***************************************************************************)
(* Route planning in hungry-for-waffles: the polyline decoder, the greedy  *)
(* nearest-neighbour solver and the planning request run by the WaffleMap  *)
(* component (fetchWaffleHouses -> getOptimizedWaffleRoute ->               *)
(* getORSRoute / fetchRealRoute).                                          *)
(*                                                                         *)
(* Coordinates are integers in thousandths of a degree: decodePolyline     *)
(* divides its accumulated integers by 1e3, so the integer n stands for    *)
(* the number n / 1e3 and the test "x < 1" of the code reads "n < 1000".   *)
(***************************************************************************)
EXTENDS Integers, Sequences, FiniteSets, TLC

VARIABLES
    \* ---- polyline decoder (decodePolyline) ----
    encoded,        \* the input string, a sequence of char codes
    index,          \* let index
    lat,            \* let lat (running integer, before / 1e3)
    lng,            \* let lng
    poly,           \* const poly, the points pushed so far
    dpc,            \* position of the decoder: "off" | "loop" | "done"
    \* ---- greedy solver (solveHungryForWaffles) ----
    sStart,         \* <<userLat, userLng>>
    sInput,         \* the waffleHouses argument
    unvisited,      \* const unvisited
    sRoute,         \* const route
    current,        \* <<currentLat, currentLng>>
    sTotal,         \* let totalDistance
    iterations,     \* number of passes of the while loop so far
    spc,            \* position of the solver: "off" | "loop" | "done"
    \* ---- planning request (WaffleMap.tsx) ----
    apiKey,                 \* import.meta.env.VITE_OPENROUTE_API_KEY is set
    pc,                     \* the await fetchWaffleHouses is suspended at
    start,                  \* <<lat, lng>> given to fetchWaffleHouses
    data,                   \* data.data of the lookup response
    waffleHouses,           \* useState: waffleHouses
    route,                  \* useState: route
    totalDistance,          \* useState: totalDistance
    realRouteCoordinates,   \* useState: realRouteCoordinates
    isLoadingRoute,         \* useState: isLoadingRoute
    routeError,             \* useState: routeError
    routeStats,             \* useState: routeStats
    isLoadingWaffleHouses,  \* useState: isLoadingWaffleHouses
    waffleHouseError,       \* useState: waffleHouseError
    optimizedRoute,         \* const optimizedRoute of getOptimizedWaffleRoute
    routeGeometry,          \* let routeGeometry of getOptimizedWaffleRoute
    optSummary,             \* totalDistance / totalDuration it returns
    lookup,                 \* "none" | "failed" | "ok": how the lookup ended
    geomSource,             \* where realRouteCoordinates comes from
    optSteps,               \* route.steps of the optimizer response (jobs)
    optGeometry,            \* the decoded, axis-swapped optimizer geometry
    optOutcome,             \* "none" | "failed" | "threw" | "ok"
    optCalls,               \* requests sent to the optimization service
    dirCalls,               \* requests sent to the directions service
    dirArgs,                \* the coordinate lists of those requests
    dirOutcome,             \* "none" | "failed" | "ok": the last directions request
    dirSummary,             \* the summary of the last directions response, converted
    dirCoords,              \* the coordinates of the last directions response read
    \* ---- location of the user (getCurrentLocation) ----
    component,      \* the file of the component: "WaffleMap.tsx" | "part_002"
    geolocation,    \* navigator.geolocation is defined
    userLocation,   \* useState: userLocation
    isLoading,      \* useState: isLoading
    error,          \* useState: error
    lpc,            \* "off" | "idle" | "waiting" | "done"
    locPath,        \* "none" | "unsupported" | "obtained" | "error": how the call ended
    \* ---- overlapping runs of fetchWaffleHouses ----
    runs,           \* run -> its position, arguments, locals and what it stored
    \* ---- the waffle_houses lookup handler ----
    req,            \* the request: method and the lat, lng, radius of req.query
    hpc,            \* "off" | "idle" | "query" | "done"
    resStatus,      \* the status given to res.status, 0 before
    resBody,        \* the object given to json
    queried         \* the sql query has been sent

decVars == <<encoded, index, lat, lng, poly, dpc>>
solVars == <<sStart, sInput, unvisited, sRoute, current, sTotal, iterations, spc>>
reactVars == <<waffleHouses, route, totalDistance, realRouteCoordinates, isLoadingRoute,
               routeError, routeStats, isLoadingWaffleHouses, waffleHouseError>>
localVars == <<optimizedRoute, routeGeometry, optSummary>>
ghostVars == <<lookup, geomSource, optSteps, optGeometry, optOutcome, optCalls, dirCalls, dirArgs,
               dirOutcome, dirSummary, dirCoords>>
planVars == <<apiKey, pc, start, data, reactVars, localVars, ghostVars>>
locVars == <<component, geolocation, userLocation, isLoading, error, lpc, locPath>>
singleVars == <<pc, start, data, localVars, ghostVars>>
apiVars == <<req, hpc, resStatus, resBody, queried>>

\* ---------------------------------------------------------------------
\* Bounds
\* ---------------------------------------------------------------------
MaxLen == 4          \* longest encoded string given to the decoder
MaxStops == 2        \* longest candidate list of a planning request
MaxSteps == 2        \* longest step list of an optimizer response
MaxPath == 2         \* longest coordinate list of a directions response
MaxRuns == 2         \* runs of fetchWaffleHouses started on one component

\* ---------------------------------------------------------------------
\* Small helpers
\* ---------------------------------------------------------------------
RECURSIVE Pow2(_)
Pow2(n) == IF n = 0 THEN 1 ELSE 2 * Pow2(n - 1)

\* bitwise OR of two non-negative integers
RECURSIVE BitOr(_, _)
BitOr(a, b) ==
    IF a = 0 THEN b
    ELSE IF b = 0 THEN a
    ELSE (IF (a % 2 = 1) \/ (b % 2 = 1) THEN 1 ELSE 0) + 2 * BitOr(a \div 2, b \div 2)

\* all sequences over S of length at most n
SeqUpTo(S, n) == UNION { [1..k -> S] : k \in 0..n }

\* ---------------------------------------------------------------------
\* decodePolyline
\* ---------------------------------------------------------------------
\* charCodeAt yields NaN past the end of the string; char codes are 0..65535
NaN == -1

\* the characters the decoder is tried on: '?' (0), '@' (1), 'A' (2),
\* '_' (32 = continuation, no bits), '`' (33 = continuation, bit 0)
Chars == {63, 64, 65, 95, 96}

\* encoded.charCodeAt(i) for the 0-based index i: NaN past the end
charCodeAt(s, i) == IF i < Len(s) THEN s[i + 1] ELSE NaN

\* (charCode - 63) & 0x1f ; NaN - 63 is NaN and NaN & 0x1f is 0
Low5(c) == IF c = NaN THEN 0 ELSE (c - 63) % 32

\* a loop that goes on while the character just read has its continuation
\* bit set and the string has not ended
RECURSIVE ReadGroupByChar(_, _, _, _)
ReadGroupByChar(s, i, shift, result) ==
    LET c == charCodeAt(s, i)
        r == BitOr(result, Low5(c) * Pow2(shift))
    IN  IF c # NaN /\ c - 63 >= 32 THEN ReadGroupByChar(s, i + 1, shift + 5, r)
        ELSE [result |-> r, index |-> i + 1]

\* one do { ... } while (result >= 0x20) loop, entered at index i with
\* the given shift and result; yields the result and the index after it
RECURSIVE ReadGroupCont(_, _, _, _)
RECURSIVE ReadGroup(_, _, _, _)
ReadGroup(s, i, shift, result) ==
    LET r == BitOr(result, Low5(charCodeAt(s, i)) * Pow2(shift))
    IN  IF r >= 32 THEN ReadGroup(s, i + 1, shift + 5, r)
        ELSE [result |-> r, index |-> i + 1]

\* the same loop with the continuation test on the group just read
\* (b >= 0x20) instead of on the accumulated result
ReadGroupCont(s, i, shift, result) ==
    LET c == charCodeAt(s, i)
        b == IF c = NaN THEN 0 ELSE c - 63
        r == BitOr(result, (b % 32) * Pow2(shift))
    IN  IF b >= 32 /\ c # NaN THEN ReadGroupCont(s, i + 1, shift + 5, r)
        ELSE [result |-> r, index |-> i + 1]

\* result & 1 ? ~(result >> 1) : result >> 1
UnZigZag(result) ==
    IF result % 2 = 1 THEN -(result \div 2) - 1 ELSE result \div 2

\* the decoder before its first loop test
DecInit ==
    /\ encoded \in SeqUpTo(Chars, MaxLen)
    /\ index = 0 /\ lat = 0 /\ lng = 0 /\ poly = <<>>
    /\ dpc = "loop"

\* one pass of while (index < len): two groups, one pushed point
DecodeStep ==
    /\ UNCHANGED <<solVars, planVars, locVars, runs, apiVars>>
    /\ dpc = "loop"
    /\ index < Len(encoded)
    /\ LET g1 == ReadGroup(encoded, index, 0, 0)
           dlat == UnZigZag(g1.result)
           g2 == ReadGroup(encoded, g1.index, 0, 0)
           dlng == UnZigZag(g2.result)
       IN  /\ lat' = lat + dlat
           /\ lng' = lng + dlng
           /\ index' = g2.index
           /\ poly' = Append(poly, <<lat + dlat, lng + dlng>>)
    /\ UNCHANGED <<encoded, dpc>>

\* the loop test fails: return poly
DecodeReturn ==
    /\ UNCHANGED <<solVars, planVars, locVars, runs, apiVars>>
    /\ dpc = "loop"
    /\ ~(index < Len(encoded))
    /\ dpc' = "done"
    /\ UNCHANGED <<encoded, index, lat, lng, poly>>

\* decodePolyline as a function of its argument
RECURSIVE DecodeFrom(_, _, _, _, _)
DecodeFrom(s, i, la, ln, acc) ==
    IF i < Len(s)
    THEN LET g1 == ReadGroup(s, i, 0, 0)
             g2 == ReadGroup(s, g1.index, 0, 0)
             la2 == la + UnZigZag(g1.result)
             ln2 == ln + UnZigZag(g2.result)
         IN  DecodeFrom(s, g2.index, la2, ln2, Append(acc, <<la2, ln2>>))
    ELSE acc

decodePolyline(s) == DecodeFrom(s, 0, 0, 0, <<>>)

\* ---------------------------------------------------------------------
\* haversineDistance and solveHungryForWaffles
\* ---------------------------------------------------------------------
MaxCandidates == 3   \* longest candidate list given to the solver

Undefined == [id |-> "undefined"]

\* the Waffle Houses of the model: whA and whB are equally far from the
\* start <<1000, -88000>>, whD shares its coordinates with whA
whA == [id |-> "A", latitude |-> 2000, longitude |-> -88000]
whB == [id |-> "B", latitude |-> 0, longitude |-> -88000]
whC == [id |-> "C", latitude |-> 1000, longitude |-> -87000]
whD == [id |-> "D", latitude |-> 2000, longitude |-> -88000]
Stores == {whA, whB, whC, whD}

\* user locations: one north of latitude 1, one on the equator
Starts == {<<1000, -88000>>, <<0, -88000>>}

\* sequences of distinct elements of S, of length at most n
DistinctSeqs(S, n) ==
    { q \in SeqUpTo(S, n) : \A i, j \in 1..Len(q) : i # j => q[i] # q[j] }

Abs(x) == IF x < 0 THEN -x ELSE x

\* Math.sin(d / 2) * Math.sin(d / 2) for d = (x2 - x1) * Math.PI / 180, times
\* 1e9, tabulated at the coordinate differences of the model (0, 1 and 2
\* degrees): sin(0.5 deg)^2 = 7.6152e-5, sin(1 deg)^2 = 3.04587e-4
SinHalfSq(dMilli) ==
    CASE Abs(dMilli) = 0 -> 0
      [] Abs(dMilli) = 1000 -> 76152
      [] Abs(dMilli) = 2000 -> 304587

\* Math.cos(lat * Math.PI / 180) times 1e4, at the latitudes of the model
CosDeg(latMilli) ==
    CASE Abs(latMilli) = 0 -> 10000
      [] Abs(latMilli) = 1000 -> 9998
      [] Abs(latMilli) = 2000 -> 9994

\* floor of the square root, by bisection on lo..hi
RECURSIVE SqrtBetween(_, _, _)
SqrtBetween(x, lo, hi) ==
    IF lo >= hi THEN lo
    ELSE LET mid == (lo + hi + 1) \div 2
         IN  IF mid * mid <= x THEN SqrtBetween(x, mid, hi)
             ELSE SqrtBetween(x, lo, mid - 1)

Sqrt(x) == SqrtBetween(x, 0, 46340)

\* the distance in hundredths of a mile.  a is kept times 1e9, its square
\* root times 1e6; c = 2 * atan2(sqrt(a), sqrt(1 - a)) = 2 * asin(sqrt(a)) is
\* taken to the third order of asin, which is exact to 1e-6 for the angles
\* of the model; R = 3959.
haversineDistance(lat1, lng1, lat2, lng2) ==
    LET cc == (CosDeg(lat1) * CosDeg(lat2)) \div 10000
        a == SinHalfSq(lat2 - lat1) + (cc * (SinHalfSq(lng2 - lng1) \div 10)) \div 1000
        s == Sqrt(a * 1000)
        asin == s + (((s \div 100) * (s \div 100) * (s \div 100)) \div 6) \div 1000000
    IN  (3959 * 2 * asin) \div 10000

\* a scan that lets a later candidate at the same distance win
RECURSIVE ScanNearestLast(_, _, _, _, _, _)
ScanNearestLast(cLat, cLng, list, i, nearestIndex, nearestDistance) ==
    IF i > Len(list) THEN [index |-> nearestIndex, distance |-> nearestDistance]
    ELSE LET distance == haversineDistance(cLat, cLng, list[i].latitude, list[i].longitude)
         IN  IF distance <= nearestDistance
             THEN ScanNearestLast(cLat, cLng, list, i + 1, i, distance)
             ELSE ScanNearestLast(cLat, cLng, list, i + 1, nearestIndex, nearestDistance)

\* the for loop of lines 82-93: scan from position i with the nearest so far
RECURSIVE ScanNearest(_, _, _, _, _, _)
ScanNearest(cLat, cLng, list, i, nearestIndex, nearestDistance) ==
    IF i > Len(list) THEN [index |-> nearestIndex, distance |-> nearestDistance]
    ELSE LET distance == haversineDistance(cLat, cLng, list[i].latitude, list[i].longitude)
         IN  IF distance < nearestDistance
             THEN ScanNearest(cLat, cLng, list, i + 1, i, distance)
             ELSE ScanNearest(cLat, cLng, list, i + 1, nearestIndex, nearestDistance)

\* nearestIndex (1-based here) and nearestDistance of one pass
Nearest(cLat, cLng, list) ==
    ScanNearest(cLat, cLng, list, 2, 1,
                haversineDistance(cLat, cLng, list[1].latitude, list[1].longitude))

\* a splice that always removes the head
SpliceHead(list, i) == Tail(list)

\* a splice that removes nothing
SpliceNone(list, i) == list

\* the list after unvisited.splice(i, 1), i 1-based
Splice(list, i) == [k \in 1..(Len(list) - 1) |-> IF k < i THEN list[k] ELSE list[k + 1]]

\* the state at the first test of the while loop, or the early return
SolveInit ==
    /\ sStart \in Starts
    /\ sInput \in DistinctSeqs(Stores, MaxCandidates)
    /\ unvisited = sInput
    /\ sRoute = <<>>
    /\ current = sStart
    /\ sTotal = 0
    /\ iterations = 0
    /\ spc = IF Len(sInput) = 0 THEN "done" ELSE "loop"

\* one pass of while (unvisited.length > 0)
SolveStep ==
    /\ UNCHANGED <<decVars, planVars, locVars, runs, apiVars>>
    /\ spc = "loop"
    /\ Len(unvisited) > 0
    /\ LET n == Nearest(current[1], current[2], unvisited)
           nearest == unvisited[n.index]
       IN  /\ unvisited' = Splice(unvisited, n.index)
           /\ sRoute' = Append(sRoute, nearest)
           /\ sTotal' = sTotal + n.distance
           /\ current' = <<nearest.latitude, nearest.longitude>>
    /\ iterations' = iterations + 1
    /\ UNCHANGED <<sStart, sInput, spc>>

\* a return that adds the leg from the last stop back to the start
SolveReturnRoundTrip ==
    /\ UNCHANGED <<decVars, planVars, locVars, runs, apiVars>>
    /\ spc = "loop"
    /\ Len(unvisited) = 0
    /\ spc' = "done"
    /\ sTotal' = sTotal + haversineDistance(current[1], current[2], sStart[1], sStart[2])
    /\ UNCHANGED <<sStart, sInput, unvisited, sRoute, current, iterations>>

\* the loop test fails: return { route, totalDistance }
SolveReturn ==
    /\ UNCHANGED <<decVars, planVars, locVars, runs, apiVars>>
    /\ spc = "loop"
    /\ Len(unvisited) = 0
    /\ spc' = "done"
    /\ UNCHANGED <<sStart, sInput, unvisited, sRoute, current, sTotal, iterations>>

\* solveHungryForWaffles as a function of its arguments
RECURSIVE SolveFrom(_, _, _, _, _)
SolveFrom(cLat, cLng, list, acc, total) ==
    IF Len(list) > 0
    THEN LET n == Nearest(cLat, cLng, list)
             nearest == list[n.index]
         IN  SolveFrom(nearest.latitude, nearest.longitude, Splice(list, n.index),
                       Append(acc, nearest), total + n.distance)
    ELSE [route |-> acc, totalDistance |-> total]

solveHungryForWaffles(userLat, userLng, list) ==
    IF Len(list) = 0 THEN [route |-> <<>>, totalDistance |-> 0]
    ELSE SolveFrom(userLat, userLng, list, <<>>, 0)

decOff ==
    /\ encoded = <<>> /\ index = 0 /\ lat = 0 /\ lng = 0 /\ poly = <<>> /\ dpc = "off"

\* ---------------------------------------------------------------------
\* The planning request: fetchWaffleHouses, getOptimizedWaffleRoute,
\* getORSRoute, fetchRealRoute
\* ---------------------------------------------------------------------
Null == [null |-> TRUE]
NoError == "null"

\* step.job of a depot step (undefined)
NoJob == -1

PlanStores == {whA, whB, whC}
JobIds == {NoJob} \cup 1..(MaxStops + 1)
StepLists == SeqUpTo(JobIds, MaxSteps)

\* route.geometry: absent or "" (both falsy, <<>> here), "@@" and the
\* odd-length "`@?"
Geometries == {<<>>, <<64, 64>>, <<96, 64, 63>>}

\* distance in meters and duration in seconds as the services report them
Summaries == {[distance |-> 160934, duration |-> 600], [distance |-> 0, duration |-> 0]}

\* routes[0] of an optimizer response
NoRoute == [present |-> FALSE]
OptRoutes ==
    {NoRoute} \cup
    [present : {TRUE}, steps : StepLists, geometry : Geometries, summary : Summaries]

\* features[0].geometry.coordinates of a directions response: [lng, lat]
\* entries and entries of fewer than two components
DirEntries == {<<-88000, 1000>>, <<-87000, 2000>>, <<-88000>>}
DirCoordinates == SeqUpTo(DirEntries, MaxPath)

\* meters / 1609.34, in hundredths of a mile
Miles(meters) == (meters * 10000) \div 160934

\* seconds / 60, in hundredths of a minute
Minutes(seconds) == (seconds * 100) \div 60

Converted(sm) == [distance |-> Miles(sm.distance), duration |-> Minutes(sm.duration)]

HasUndefined(list) == \E i \in 1..Len(list) : list[i] = Undefined

\* uniform filter of a sequence
RECURSIVE SelectGE2(_)
SelectGE2(coords) ==
    IF coords = <<>> THEN <<>>
    ELSE IF Len(Head(coords)) >= 2 THEN <<Head(coords)>> \o SelectGE2(Tail(coords))
         ELSE SelectGE2(Tail(coords))

RECURSIVE JobSteps(_)
JobSteps(steps) ==
    IF steps = <<>> THEN <<>>
    ELSE IF Head(steps) # NoJob THEN <<Head(steps)>> \o JobSteps(Tail(steps))
         ELSE JobSteps(Tail(steps))

\* waffleHouses[job] instead: the job identifier taken as a 0-based index
ElementAtZeroBased(list, job) == IF job + 1 \in 1..Len(list) THEN list[job + 1] ELSE Undefined

\* the jobs of the optimization request: id is the index + 1, location is
\* [longitude, latitude]
Jobs(list) ==
    [k \in 1..Len(list) |-> [id |-> k, location |-> <<list[k].longitude, list[k].latitude>>]]

\* waffleHouses[job - 1]: undefined outside the array
ElementAt(list, job) == IF job \in 1..Len(list) THEN list[job] ELSE Undefined

\* route.steps.filter(step.job !== undefined).map(waffleHouses[step.job - 1])
MapSteps(steps, list) ==
    LET jobs == JobSteps(steps)
    IN  [k \in 1..Len(jobs) |-> ElementAt(list, jobs[k])]

\* coords.map(coord => [coord[1], coord[0]])
SwapAxes(coords) == [k \in 1..Len(coords) |-> <<coords[k][2], coords[k][1]>>]

\* the filter without the exchange of the two components
ToLeafletUnswapped(coords) == SelectGE2(coords)

\* .filter(coord.length >= 2).map([coord[1], coord[0]])
ToLeaflet(coords) == SwapAxes(SelectGE2(coords))

\* [[start[0], start[1]], ...optimizedRoute.map(wh => [wh.latitude, wh.longitude])]
StraightLine(st, list) ==
    <<st>> \o [k \in 1..Len(list) |-> <<list[k].latitude, list[k].longitude>>]

\* [[lng, lat] of the start, ...route.map(wh => [wh.longitude, wh.latitude])]
DirectionsCoordinates(st, list) ==
    <<<<st[2], st[1]>>>> \o [k \in 1..Len(list) |-> <<list[k].longitude, list[k].latitude>>]

\* routeGeometry.length > 0 && routeGeometry[0][0] < 1
TooSmall(geom) == Len(geom) > 0 /\ geom[1][1] < 1000

\* the message of the error thrown when the key is not set
KeyNotFound == "OpenRouteService API key not found"

\* a credential test that always passes
KeyMissingNever(key) == FALSE

\* if (!apiKey) of getOptimizedWaffleRoute and of getORSRoute
KeyMissing(key) == ~key

\* data.data.length > 0 in fetchWaffleHouses; a test that always passes
HasWaffleHousesAlways(list) == TRUE

HasWaffleHouses(list) == Len(list) > 0

\* catch and finally of fetchWaffleHouses
Rejected(message) ==
    /\ waffleHouseError' = message
    /\ waffleHouses' = <<>>
    /\ isLoadingWaffleHouses' = FALSE
    /\ pc' = "done"
    /\ UNCHANGED <<route, totalDistance, realRouteCoordinates, isLoadingRoute,
                   routeError, routeStats, geomSource, dirCalls, dirArgs>>

\* fetchWaffleHouses after getOptimizedWaffleRoute has returned (r, g, sm),
\* g made by src: lines 544-558, with fetchRealRoute up to its first await,
\* and the finally
Returned(r, g, sm, src) ==
    /\ route' = r
    /\ totalDistance' = sm.distance
    /\ UNCHANGED <<waffleHouses, waffleHouseError>>
    /\ IF Len(g) > 0
       THEN /\ realRouteCoordinates' = g
            /\ geomSource' = src
            /\ routeStats' = sm
            /\ isLoadingWaffleHouses' = FALSE
            /\ pc' = "done"
            /\ UNCHANGED <<isLoadingRoute, routeError, dirCalls, dirArgs>>
       ELSE IF Len(r) = 0
       THEN /\ routeStats' = sm
            /\ isLoadingWaffleHouses' = FALSE
            /\ pc' = "done"
            /\ UNCHANGED <<realRouteCoordinates, geomSource, isLoadingRoute, routeError,
                           dirCalls, dirArgs>>
       ELSE IF HasUndefined(r) \/ KeyMissing(apiKey)
       THEN \* building the coordinates, or getORSRoute, throws: catch, finally
            /\ routeError' = "Failed to get real road route. Showing straight-line route instead."
            /\ realRouteCoordinates' = <<>>
            /\ geomSource' = "none"
            /\ routeStats' = Null
            /\ isLoadingRoute' = FALSE
            /\ isLoadingWaffleHouses' = FALSE
            /\ pc' = "done"
            /\ UNCHANGED <<dirCalls, dirArgs>>
       ELSE /\ isLoadingRoute' = TRUE
            /\ routeError' = NoError
            /\ routeStats' = sm
            /\ dirCalls' = dirCalls + 1
            /\ dirArgs' = Append(dirArgs, DirectionsCoordinates(start, r))
            /\ pc' = "realRoute"
            /\ UNCHANGED <<realRouteCoordinates, geomSource, isLoadingWaffleHouses>>

\* the component after construction
PlanInit ==
    /\ apiKey \in BOOLEAN
    /\ pc = "idle"
    /\ start = <<0, 0>>
    /\ data = <<>>
    /\ waffleHouses = <<>> /\ route = <<>> /\ totalDistance = 0
    /\ realRouteCoordinates = <<>> /\ isLoadingRoute = FALSE /\ routeError = NoError
    /\ routeStats = Null /\ isLoadingWaffleHouses = FALSE /\ waffleHouseError = NoError
    /\ optimizedRoute = <<>> /\ routeGeometry = <<>> /\ optSummary = Null
    /\ lookup = "none" /\ geomSource = "none"
    /\ optSteps = <<>> /\ optGeometry = <<>> /\ optOutcome = "none"
    /\ optCalls = 0 /\ dirCalls = 0 /\ dirArgs = <<>>
    /\ dirOutcome = "none" /\ dirSummary = Null /\ dirCoords = <<>>

planOff ==
    /\ apiKey = FALSE
    /\ pc = "off"
    /\ start = <<0, 0>>
    /\ data = <<>>
    /\ waffleHouses = <<>> /\ route = <<>> /\ totalDistance = 0
    /\ realRouteCoordinates = <<>> /\ isLoadingRoute = FALSE /\ routeError = NoError
    /\ routeStats = Null /\ isLoadingWaffleHouses = FALSE /\ waffleHouseError = NoError
    /\ optimizedRoute = <<>> /\ routeGeometry = <<>> /\ optSummary = Null
    /\ lookup = "none" /\ geomSource = "none"
    /\ optSteps = <<>> /\ optGeometry = <<>> /\ optOutcome = "none"
    /\ optCalls = 0 /\ dirCalls = 0 /\ dirArgs = <<>>
    /\ dirOutcome = "none" /\ dirSummary = Null /\ dirCoords = <<>>

\* a request that asks the directions service for a path from the start
\* while its lookup is still outstanding
StartRequestPrefetch ==
    /\ UNCHANGED <<decVars, solVars, locVars, runs, apiVars>>
    /\ pc = "idle"
    /\ \E st \in Starts :
        /\ start' = st
        /\ dirArgs' = Append(dirArgs, <<<<st[2], st[1]>>>>)
    /\ dirCalls' = dirCalls + 1
    /\ isLoadingWaffleHouses' = TRUE
    /\ waffleHouseError' = NoError
    /\ pc' = "lookup"
    /\ UNCHANGED <<apiKey, data, waffleHouses, route, totalDistance, realRouteCoordinates,
                   isLoadingRoute, routeError, routeStats, localVars, lookup, geomSource,
                   optSteps, optGeometry, optOutcome, optCalls, dirOutcome, dirSummary,
                   dirCoords>>

\* fetchWaffleHouses up to the await of the lookup fetch
StartRequest ==
    /\ UNCHANGED <<decVars, solVars, locVars, runs, apiVars>>
    /\ pc = "idle"
    /\ \E st \in Starts : start' = st
    /\ isLoadingWaffleHouses' = TRUE
    /\ waffleHouseError' = NoError
    /\ pc' = "lookup"
    /\ UNCHANGED <<apiKey, data, waffleHouses, route, totalDistance, realRouteCoordinates,
                   isLoadingRoute, routeError, routeStats, localVars, ghostVars>>

\* the lookup rejects, answers with a non-ok status, or with success false
LookupFail ==
    /\ UNCHANGED <<decVars, solVars, locVars, runs, apiVars>>
    /\ pc = "lookup"
    /\ \E message \in {"HTTP error! status", "Failed to fetch Waffle Houses"} :
           Rejected(message)
    /\ lookup' = "failed"
    /\ UNCHANGED <<apiKey, start, data, localVars, optSteps, optGeometry, optOutcome, optCalls,
                   dirOutcome, dirSummary,
                   dirCoords>>

\* the lookup answers with success true: lines 530-564 up to the await of
\* the optimization request inside getOptimizedWaffleRoute
LookupSuccess ==
    /\ UNCHANGED <<decVars, solVars, locVars, runs, apiVars>>
    /\ pc = "lookup"
    /\ \E d \in DistinctSeqs(PlanStores, MaxStops) :
        /\ data' = d
        /\ IF HasWaffleHouses(d)
           THEN IF KeyMissing(apiKey)
                THEN /\ Rejected(KeyNotFound)
                     /\ UNCHANGED <<localVars, optCalls>>
                ELSE IF Len(d) = 0
                THEN \* getOptimizedWaffleRoute returns the empty result
                     /\ waffleHouses' = d
                     /\ optimizedRoute' = <<>> /\ routeGeometry' = <<>>
                     /\ optSummary' = [distance |-> 0, duration |-> 0]
                     /\ route' = <<>>
                     /\ totalDistance' = 0
                     /\ routeStats' = [distance |-> 0, duration |-> 0]
                     /\ isLoadingWaffleHouses' = FALSE
                     /\ pc' = "done"
                     /\ UNCHANGED <<realRouteCoordinates, geomSource, isLoadingRoute,
                                    routeError, waffleHouseError, optCalls, dirCalls, dirArgs>>
                ELSE /\ waffleHouses' = d
                     /\ optCalls' = optCalls + 1
                     /\ pc' = "optimizing"
                     /\ UNCHANGED <<route, totalDistance, realRouteCoordinates, isLoadingRoute,
                                    routeError, routeStats, isLoadingWaffleHouses,
                                    waffleHouseError, localVars, geomSource, dirCalls, dirArgs>>
           ELSE /\ waffleHouses' = d
                /\ route' = <<>>
                /\ totalDistance' = 0
                /\ realRouteCoordinates' = <<>>
                /\ geomSource' = "none"
                /\ routeStats' = Null
                /\ isLoadingWaffleHouses' = FALSE
                /\ pc' = "done"
                /\ UNCHANGED <<isLoadingRoute, routeError, waffleHouseError, localVars,
                               optCalls, dirCalls, dirArgs>>
    /\ lookup' = "ok"
    /\ UNCHANGED <<apiKey, start, optSteps, optGeometry, optOutcome, dirOutcome, dirSummary,
                   dirCoords>>

\* the optimization request rejects (transport error, non-success status):
\* catch of getOptimizedWaffleRoute rethrows, fetchWaffleHouses catches
OptimizeFail ==
    /\ UNCHANGED <<decVars, solVars, locVars, runs, apiVars>>
    /\ pc = "optimizing"
    /\ Rejected("Request failed")
    /\ optOutcome' = "failed"
    /\ UNCHANGED <<apiKey, start, data, localVars, lookup, optSteps, optGeometry, optCalls,
                   dirOutcome, dirSummary,
                   dirCoords>>

\* the optimization request resolves with routes[0] = rt: lines 173-254 up
\* to the await of getORSRoute or to the return, and what follows the return
OptimizeRespond ==
    /\ UNCHANGED <<decVars, solVars, locVars, runs, apiVars>>
    /\ pc = "optimizing"
    /\ \E rt \in OptRoutes :
        IF ~rt.present \/ Len(rt.steps) = 0
        THEN /\ Rejected("No route found in optimization response")
             /\ optOutcome' = "failed"
             /\ UNCHANGED <<localVars, optSteps, optGeometry>>
        ELSE LET r == MapSteps(rt.steps, data)
                 sm == Converted(rt.summary)
                 decoded == SwapAxes(decodePolyline(rt.geometry))
                 g == IF rt.geometry # <<>> THEN decoded ELSE StraightLine(start, r)
                 src == IF rt.geometry # <<>> THEN "optimizer" ELSE "straight"
             IN  /\ optSteps' = rt.steps
                 /\ IF rt.geometry = <<>> /\ HasUndefined(r)
                    THEN \* wh.latitude of undefined: TypeError, outer catch
                         /\ Rejected("Cannot read properties of undefined")
                         /\ optOutcome' = "threw"
                         /\ UNCHANGED <<localVars, optGeometry>>
                    ELSE /\ optOutcome' = "ok"
                         /\ optGeometry' = IF rt.geometry # <<>> THEN decoded ELSE <<>>
                         /\ optimizedRoute' = r
                         /\ optSummary' = sm
                         /\ routeGeometry' = g
                         /\ IF TooSmall(g) /\ ~HasUndefined(r)
                            THEN \* getORSRoute(coordinates): the key is set
                                 /\ dirCalls' = dirCalls + 1
                                 /\ dirArgs' = Append(dirArgs, DirectionsCoordinates(start, r))
                                 /\ pc' = "directions"
                                 /\ UNCHANGED <<reactVars, geomSource>>
                            ELSE \* no fallback, or its coordinates throw and
                                 \* catch (directionsError) keeps routeGeometry
                                 Returned(r, g, sm, src)
    /\ UNCHANGED <<apiKey, start, data, lookup, optCalls, dirOutcome, dirSummary,
                   dirCoords>>

\* getORSRoute rejects inside getOptimizedWaffleRoute (transport error,
\* non-success status, response without features): routeGeometry is kept
DirectionsFail ==
    /\ UNCHANGED <<decVars, solVars, locVars, runs, apiVars>>
    /\ pc = "directions"
    /\ Returned(optimizedRoute, routeGeometry, optSummary,
                IF optGeometry # <<>> THEN "optimizer" ELSE "straight")
    /\ dirOutcome' = "failed"
    /\ UNCHANGED <<apiKey, start, data, localVars, lookup, optSteps, optGeometry, optOutcome,
                   optCalls, dirSummary,
                   dirCoords>>

\* getORSRoute resolves inside getOptimizedWaffleRoute: lines 234-254
DirectionsRespond ==
    /\ UNCHANGED <<decVars, solVars, locVars, runs, apiVars>>
    /\ pc = "directions"
    /\ \E coords \in DirCoordinates :
        /\ dirCoords' = coords
        /\ routeGeometry' = ToLeaflet(coords)
        /\ Returned(optimizedRoute, ToLeaflet(coords), optSummary, "directions")
    /\ \E sm \in Summaries : dirSummary' = Converted(sm)
    /\ dirOutcome' = "ok"
    /\ UNCHANGED <<apiKey, start, data, optimizedRoute, optSummary,
                   lookup, optSteps, optGeometry, optOutcome, optCalls>>

\* getORSRoute rejects inside fetchRealRoute: catch, finally, then the
\* finally of fetchWaffleHouses
RealRouteFail ==
    /\ UNCHANGED <<decVars, solVars, locVars, runs, apiVars>>
    /\ pc = "realRoute"
    /\ routeError' = "Failed to get real road route. Showing straight-line route instead."
    /\ realRouteCoordinates' = <<>>
    /\ geomSource' = "none"
    /\ routeStats' = Null
    /\ isLoadingRoute' = FALSE
    /\ isLoadingWaffleHouses' = FALSE
    /\ pc' = "done"
    /\ dirOutcome' = "failed"
    /\ UNCHANGED <<apiKey, start, data, waffleHouses, route, totalDistance, waffleHouseError,
                   localVars, lookup, optSteps, optGeometry, optOutcome, optCalls,
                   dirCalls, dirArgs, dirSummary,
                   dirCoords>>

\* getORSRoute resolves inside fetchRealRoute: lines 605-623, up to the
\* await of the second request to the directions service
RealRouteRespond ==
    /\ UNCHANGED <<decVars, solVars, locVars, runs, apiVars>>
    /\ pc = "realRoute"
    /\ \E coords \in DirCoordinates :
        /\ dirCoords' = coords
        /\ realRouteCoordinates' = ToLeaflet(coords)
    /\ geomSource' = "directions"
    /\ dirCalls' = dirCalls + 1
    /\ dirArgs' = Append(dirArgs, DirectionsCoordinates(start, route))
    /\ pc' = "stats"
    /\ \E sm \in Summaries : dirSummary' = Converted(sm)
    /\ dirOutcome' = "ok"
    /\ UNCHANGED <<apiKey, start, data, waffleHouses, route, totalDistance, isLoadingRoute,
                   routeError, routeStats, isLoadingWaffleHouses, waffleHouseError,
                   localVars, lookup, optSteps, optGeometry, optOutcome, optCalls>>

\* the statistics request rejects or has no summary: catch (statsError)
StatsFail ==
    /\ UNCHANGED <<decVars, solVars, locVars, runs, apiVars>>
    /\ pc = "stats"
    /\ routeStats' = Null
    /\ isLoadingRoute' = FALSE
    /\ isLoadingWaffleHouses' = FALSE
    /\ pc' = "done"
    /\ dirOutcome' = "failed"
    /\ UNCHANGED <<apiKey, start, data, waffleHouses, route, totalDistance,
                   realRouteCoordinates, routeError, waffleHouseError, localVars,
                   lookup, geomSource, optSteps, optGeometry, optOutcome, optCalls,
                   dirCalls, dirArgs, dirSummary,
                   dirCoords>>

\* the statistics request resolves: lines 625-629, then both finally blocks
StatsRespond ==
    /\ UNCHANGED <<decVars, solVars, locVars, runs, apiVars>>
    /\ pc = "stats"
    /\ \E sm \in Summaries :
        /\ routeStats' = Converted(sm)
        /\ dirSummary' = Converted(sm)
    /\ isLoadingRoute' = FALSE
    /\ isLoadingWaffleHouses' = FALSE
    /\ pc' = "done"
    /\ dirOutcome' = "ok"
    /\ UNCHANGED <<apiKey, start, data, waffleHouses, route, totalDistance,
                   realRouteCoordinates, routeError, waffleHouseError, localVars,
                   lookup, geomSource, optSteps, optGeometry, optOutcome, optCalls,
                   dirCalls, dirArgs, dirCoords>>

solOff ==
    /\ sStart = <<0, 0>> /\ sInput = <<>> /\ unvisited = <<>> /\ sRoute = <<>>
    /\ current = <<0, 0>> /\ sTotal = 0 /\ iterations = 0 /\ spc = "off"

\* ---------------------------------------------------------------------
\* The location of the user: getCurrentLocation of WaffleMap.tsx and of the
\* component of part_002. Coordinates of a location are in ten-thousandths
\* of a degree
\* ---------------------------------------------------------------------
BILOXI_COORDS == <<303944, -888853>>

\* position.coords of the geolocation callback
LocPositions == {0, 100000, 303944, 450000, 900000} \X {-1800000, -888853, 0, 100000, 1800000}

\* the location both default paths store: lat and lng set from
\* BILOXI_COORDS in WaffleMap.tsx; in part_002 the array is spread into the
\* object, which gets the keys "0" and "1" (k0, k1 here) and no lat or lng
DefaultLocation(file) ==
    IF file = "part_002"
    THEN [k0 |-> BILOXI_COORDS[1], k1 |-> BILOXI_COORDS[2], name |-> "Biloxi, MS (Default)"]
    ELSE [lat |-> BILOXI_COORDS[1], lng |-> BILOXI_COORDS[2], name |-> "Biloxi, MS (Default)"]

\* the component after construction, before the effect that runs on mount
LocateInit ==
    /\ component \in {"WaffleMap.tsx", "part_002"}
    /\ geolocation \in BOOLEAN
    /\ userLocation = Null
    /\ isLoading = FALSE
    /\ error = NoError
    /\ lpc = "idle"
    /\ locPath = "none"

locOff ==
    /\ component = "off" /\ geolocation = FALSE /\ userLocation = Null
    /\ isLoading = FALSE /\ error = NoError /\ lpc = "off" /\ locPath = "none"

\* getCurrentLocation, called on mount and by the location button (disabled
\* while isLoading): returns on the unsupported path, or leaves the
\* callbacks with the browser
GetCurrentLocation ==
    /\ UNCHANGED <<decVars, solVars, planVars, runs, apiVars>>
    /\ lpc \in {"idle", "done"}
    /\ IF ~geolocation
       THEN /\ error' = "Geolocation is not supported by this browser"
            /\ userLocation' = DefaultLocation(component)
            /\ isLoading' = FALSE
            /\ lpc' = "done"
            /\ locPath' = "unsupported"
       ELSE /\ error' = NoError
            /\ isLoading' = TRUE
            /\ lpc' = "waiting"
            /\ locPath' = "none"
            /\ UNCHANGED userLocation
    /\ UNCHANGED <<component, geolocation>>

\* the success callback of getCurrentPosition
PositionObtained ==
    /\ UNCHANGED <<decVars, solVars, planVars, runs, apiVars>>
    /\ lpc = "waiting"
    /\ \E coords \in LocPositions :
           userLocation' = [lat |-> coords[1], lng |-> coords[2], name |-> "Your Location"]
    /\ isLoading' = FALSE
    /\ lpc' = "done"
    /\ locPath' = "obtained"
    /\ UNCHANGED <<component, geolocation, error>>

\* the error callback of getCurrentPosition
PositionError ==
    /\ UNCHANGED <<decVars, solVars, planVars, runs, apiVars>>
    /\ lpc = "waiting"
    /\ error' = "Unable to get your location. Using default location."
    /\ userLocation' = DefaultLocation(component)
    /\ isLoading' = FALSE
    /\ lpc' = "done"
    /\ locPath' = "error"
    /\ UNCHANGED <<component, geolocation>>

\* ---------------------------------------------------------------------
\* Several runs of fetchWaffleHouses on one component: the effect of lines
\* 730-735 starts a run at every change of userLocation or selectedRadius
\* and nothing cancels the earlier ones. Every run has its own arguments
\* and locals, and all runs write the same state hooks
\* ---------------------------------------------------------------------
RunIds == 1..MaxRuns

\* data.data of the lookup responses
RaceData == {<<>>, <<whA>>, <<whB>>}

\* routes[0] of the optimizer responses: absent, or one job with or without
\* a geometry
RaceRoutes ==
    {NoRoute} \cup
    [present : {TRUE}, steps : {<<1>>}, geometry : {<<>>, <<64, 64>>},
     summary : {[distance |-> 160934, duration |-> 600]}]

\* coordinates and summary of the directions responses
RaceCoordinates == {<<>>, <<<<-88000, 1000>>>>}
RaceSummaries == {[distance |-> 80467, duration |-> 300]}

\* a run that has not started; outcome, shownGeometry and shownStats record
\* how the run ended and what it last gave to setRealRouteCoordinates and
\* to setRouteStats, alone that every earlier run had finished when this
\* one started
IdleRun ==
    [pc |-> "idle", start |-> <<0, 0>>, data |-> <<>>, optimizedRoute |-> <<>>,
     routeGeometry |-> <<>>, optSummary |-> Null, outcome |-> "none",
     shownGeometry |-> <<>>, shownStats |-> Null, alone |-> TRUE]

runsOff == runs = <<>>

RaceInit ==
    /\ apiKey \in BOOLEAN
    /\ pc = "off"
    /\ start = <<0, 0>>
    /\ data = <<>>
    /\ waffleHouses = <<>> /\ route = <<>> /\ totalDistance = 0
    /\ realRouteCoordinates = <<>> /\ isLoadingRoute = FALSE /\ routeError = NoError
    /\ routeStats = Null /\ isLoadingWaffleHouses = FALSE /\ waffleHouseError = NoError
    /\ optimizedRoute = <<>> /\ routeGeometry = <<>> /\ optSummary = Null
    /\ lookup = "none" /\ geomSource = "none"
    /\ optSteps = <<>> /\ optGeometry = <<>> /\ optOutcome = "none"
    /\ optCalls = 0 /\ dirCalls = 0 /\ dirArgs = <<>>
    /\ dirOutcome = "none" /\ dirSummary = Null /\ dirCoords = <<>>
    /\ runs = [r \in RunIds |-> IdleRun]

\* catch and finally of fetchWaffleHouses in run r, whose locals are rec
RunRejected(r, rec, message) ==
    /\ waffleHouseError' = message
    /\ waffleHouses' = <<>>
    /\ isLoadingWaffleHouses' = FALSE
    /\ runs' = [runs EXCEPT ![r] = [rec EXCEPT !.pc = "done", !.outcome = "error"]]
    /\ UNCHANGED <<route, totalDistance, realRouteCoordinates, isLoadingRoute,
                   routeError, routeStats>>

\* run r after its getOptimizedWaffleRoute has returned the locals of rec:
\* lines 544-558, with fetchRealRoute up to its first await, and the finally
RunReturned(r, rec) ==
    /\ route' = rec.optimizedRoute
    /\ totalDistance' = rec.optSummary.distance
    /\ UNCHANGED <<waffleHouses, waffleHouseError>>
    /\ IF Len(rec.routeGeometry) > 0
       THEN /\ realRouteCoordinates' = rec.routeGeometry
            /\ routeStats' = rec.optSummary
            /\ isLoadingWaffleHouses' = FALSE
            /\ runs' = [runs EXCEPT ![r] =
                           [rec EXCEPT !.pc = "done", !.outcome = "ok",
                                       !.shownGeometry = rec.routeGeometry,
                                       !.shownStats = rec.optSummary]]
            /\ UNCHANGED <<isLoadingRoute, routeError>>
       ELSE IF Len(rec.optimizedRoute) = 0
       THEN /\ routeStats' = rec.optSummary
            /\ isLoadingWaffleHouses' = FALSE
            /\ runs' = [runs EXCEPT ![r] =
                           [rec EXCEPT !.pc = "done", !.outcome = "ok",
                                       !.shownStats = rec.optSummary]]
            /\ UNCHANGED <<realRouteCoordinates, isLoadingRoute, routeError>>
       ELSE IF HasUndefined(rec.optimizedRoute) \/ KeyMissing(apiKey)
       THEN /\ routeError' = "Failed to get real road route. Showing straight-line route instead."
            /\ realRouteCoordinates' = <<>>
            /\ routeStats' = Null
            /\ isLoadingRoute' = FALSE
            /\ isLoadingWaffleHouses' = FALSE
            /\ runs' = [runs EXCEPT ![r] =
                           [rec EXCEPT !.pc = "done", !.outcome = "ok",
                                       !.shownGeometry = <<>>, !.shownStats = Null]]
       ELSE /\ isLoadingRoute' = TRUE
            /\ routeError' = NoError
            /\ routeStats' = rec.optSummary
            /\ runs' = [runs EXCEPT ![r] =
                           [rec EXCEPT !.pc = "realRoute", !.shownStats = rec.optSummary]]
            /\ UNCHANGED <<realRouteCoordinates, isLoadingWaffleHouses>>

\* the effect calls fetchWaffleHouses: runs start in the order of their
\* numbers, each up to the await of its lookup fetch
RunStart ==
    /\ UNCHANGED <<decVars, solVars, locVars, apiKey, singleVars, apiVars>>
    /\ \E r \in RunIds :
        /\ runs[r].pc = "idle"
        /\ \A q \in 1..(r - 1) : runs[q].pc # "idle"
        /\ \E st \in Starts :
               runs' = [runs EXCEPT ![r].pc = "lookup", ![r].start = st,
                                    ![r].alone = \A q \in 1..(r - 1) : runs[q].pc = "done"]
    /\ isLoadingWaffleHouses' = TRUE
    /\ waffleHouseError' = NoError
    /\ UNCHANGED <<waffleHouses, route, totalDistance, realRouteCoordinates,
                   isLoadingRoute, routeError, routeStats>>

\* the lookup of a run rejects, answers non-ok, or with success false
RunLookupFail ==
    /\ UNCHANGED <<decVars, solVars, locVars, apiKey, singleVars, apiVars>>
    /\ \E r \in RunIds :
        /\ runs[r].pc = "lookup"
        /\ \E message \in {"HTTP error! status", "Failed to fetch Waffle Houses"} :
               RunRejected(r, runs[r], message)

\* the lookup of a run answers with success true: lines 530-564 up to the
\* await of the optimization request
RunLookupSuccess ==
    /\ UNCHANGED <<decVars, solVars, locVars, apiKey, singleVars, apiVars>>
    /\ \E r \in RunIds, d \in RaceData :
        /\ runs[r].pc = "lookup"
        /\ LET rec == [runs[r] EXCEPT !.data = d]
           IN  IF HasWaffleHouses(d)
               THEN IF KeyMissing(apiKey)
                    THEN RunRejected(r, rec, KeyNotFound)
                    ELSE /\ waffleHouses' = d
                         /\ runs' = [runs EXCEPT ![r] = [rec EXCEPT !.pc = "optimizing"]]
                         /\ UNCHANGED <<route, totalDistance, realRouteCoordinates,
                                        isLoadingRoute, routeError, routeStats,
                                        isLoadingWaffleHouses, waffleHouseError>>
               ELSE /\ waffleHouses' = d
                    /\ route' = <<>>
                    /\ totalDistance' = 0
                    /\ realRouteCoordinates' = <<>>
                    /\ routeStats' = Null
                    /\ isLoadingWaffleHouses' = FALSE
                    /\ runs' = [runs EXCEPT ![r] =
                                   [rec EXCEPT !.pc = "done", !.outcome = "ok",
                                               !.shownGeometry = <<>>, !.shownStats = Null]]
                    /\ UNCHANGED <<isLoadingRoute, routeError, waffleHouseError>>

\* the optimization request of a run rejects
RunOptimizeFail ==
    /\ UNCHANGED <<decVars, solVars, locVars, apiKey, singleVars, apiVars>>
    /\ \E r \in RunIds :
        /\ runs[r].pc = "optimizing"
        /\ RunRejected(r, runs[r], "Request failed")

\* the optimization request of a run resolves with routes[0] = rt
RunOptimizeRespond ==
    /\ UNCHANGED <<decVars, solVars, locVars, apiKey, singleVars, apiVars>>
    /\ \E r \in RunIds, rt \in RaceRoutes :
        /\ runs[r].pc = "optimizing"
        /\ IF ~rt.present \/ Len(rt.steps) = 0
           THEN RunRejected(r, runs[r], "No route found in optimization response")
           ELSE LET rr == MapSteps(rt.steps, runs[r].data)
                    g == IF rt.geometry # <<>> THEN SwapAxes(decodePolyline(rt.geometry))
                         ELSE StraightLine(runs[r].start, rr)
                    rec == [runs[r] EXCEPT !.optimizedRoute = rr, !.routeGeometry = g,
                                           !.optSummary = Converted(rt.summary)]
                IN  IF rt.geometry = <<>> /\ HasUndefined(rr)
                    THEN RunRejected(r, runs[r], "Cannot read properties of undefined")
                    ELSE IF TooSmall(g) /\ ~HasUndefined(rr)
                    THEN /\ runs' = [runs EXCEPT ![r] = [rec EXCEPT !.pc = "directions"]]
                         /\ UNCHANGED reactVars
                    ELSE RunReturned(r, rec)

\* getORSRoute rejects inside getOptimizedWaffleRoute of a run
RunDirectionsFail ==
    /\ UNCHANGED <<decVars, solVars, locVars, apiKey, singleVars, apiVars>>
    /\ \E r \in RunIds :
        /\ runs[r].pc = "directions"
        /\ RunReturned(r, runs[r])

\* getORSRoute resolves inside getOptimizedWaffleRoute of a run
RunDirectionsRespond ==
    /\ UNCHANGED <<decVars, solVars, locVars, apiKey, singleVars, apiVars>>
    /\ \E r \in RunIds, coords \in RaceCoordinates :
        /\ runs[r].pc = "directions"
        /\ RunReturned(r, [runs[r] EXCEPT !.routeGeometry = ToLeaflet(coords)])

\* a fetchRealRoute whose setIsLoadingRoute(false) is not in a finally
\* block: the catch leaves the flag set
RunRealRouteFailNoFinally ==
    /\ UNCHANGED <<decVars, solVars, locVars, apiKey, singleVars, apiVars>>
    /\ \E r \in RunIds :
        /\ runs[r].pc = "realRoute"
        /\ runs' = [runs EXCEPT ![r].pc = "done", ![r].outcome = "ok",
                                ![r].shownGeometry = <<>>, ![r].shownStats = Null]
    /\ routeError' = "Failed to get real road route. Showing straight-line route instead."
    /\ realRouteCoordinates' = <<>>
    /\ routeStats' = Null
    /\ isLoadingWaffleHouses' = FALSE
    /\ UNCHANGED <<waffleHouses, route, totalDistance, waffleHouseError, isLoadingRoute>>

\* getORSRoute rejects inside fetchRealRoute of a run: catch and both finally
RunRealRouteFail ==
    /\ UNCHANGED <<decVars, solVars, locVars, apiKey, singleVars, apiVars>>
    /\ \E r \in RunIds :
        /\ runs[r].pc = "realRoute"
        /\ runs' = [runs EXCEPT ![r].pc = "done", ![r].outcome = "ok",
                                ![r].shownGeometry = <<>>, ![r].shownStats = Null]
    /\ routeError' = "Failed to get real road route. Showing straight-line route instead."
    /\ realRouteCoordinates' = <<>>
    /\ routeStats' = Null
    /\ isLoadingRoute' = FALSE
    /\ isLoadingWaffleHouses' = FALSE
    /\ UNCHANGED <<waffleHouses, route, totalDistance, waffleHouseError>>

\* getORSRoute resolves inside fetchRealRoute of a run, up to the await of
\* the statistics request
RunRealRouteRespond ==
    /\ UNCHANGED <<decVars, solVars, locVars, apiKey, singleVars, apiVars>>
    /\ \E r \in RunIds, coords \in RaceCoordinates :
        /\ runs[r].pc = "realRoute"
        /\ realRouteCoordinates' = ToLeaflet(coords)
        /\ runs' = [runs EXCEPT ![r].pc = "stats", ![r].shownGeometry = ToLeaflet(coords)]
    /\ UNCHANGED <<waffleHouses, route, totalDistance, isLoadingRoute, routeError,
                   routeStats, isLoadingWaffleHouses, waffleHouseError>>

\* the statistics request of a run rejects: catch (statsError), both finally
RunStatsFail ==
    /\ UNCHANGED <<decVars, solVars, locVars, apiKey, singleVars, apiVars>>
    /\ \E r \in RunIds :
        /\ runs[r].pc = "stats"
        /\ runs' = [runs EXCEPT ![r].pc = "done", ![r].outcome = "ok",
                                ![r].shownStats = Null]
    /\ routeStats' = Null
    /\ isLoadingRoute' = FALSE
    /\ isLoadingWaffleHouses' = FALSE
    /\ UNCHANGED <<waffleHouses, route, totalDistance, realRouteCoordinates, routeError,
                   waffleHouseError>>

\* the statistics request of a run resolves: lines 625-629, both finally
RunStatsRespond ==
    /\ UNCHANGED <<decVars, solVars, locVars, apiKey, singleVars, apiVars>>
    /\ \E r \in RunIds, sm \in RaceSummaries :
        /\ runs[r].pc = "stats"
        /\ routeStats' = Converted(sm)
        /\ runs' = [runs EXCEPT ![r].pc = "done", ![r].outcome = "ok",
                                ![r].shownStats = Converted(sm)]
    /\ isLoadingRoute' = FALSE
    /\ isLoadingWaffleHouses' = FALSE
    /\ UNCHANGED <<waffleHouses, route, totalDistance, realRouteCoordinates, routeError,
                   waffleHouseError>>

\* ---------------------------------------------------------------------
\* The waffle_houses lookup handler (part_003, and its copy in units.ts).
\* A query parameter is a string, a sequence of characters here, or absent
\* ---------------------------------------------------------------------
Absent == <<"undefined">>

\* the values of lat, lng and radius in req.query
ParamValues ==
    {Absent, <<>>, <<"9">>, <<"9", "9">>, <<"9", "9", "9">>, <<"-", "9">>,
     <<"-", "9", "9">>, <<"-", "9", "9", "9">>, <<"x">>, <<"9", "x">>, <<"-">>}

DigitValue(c) == CASE c = "0" -> 0 [] c = "1" -> 1 [] c = "9" -> 9

IsDigit(c) == c \in {"0", "1", "9"}

\* the number of digits s begins with, from position i on
RECURSIVE LeadingDigits(_, _)
LeadingDigits(s, i) ==
    IF i <= Len(s) /\ IsDigit(s[i]) THEN 1 + LeadingDigits(s, i + 1) ELSE 0

\* the decimal value of a string of digits
RECURSIVE DigitsValue(_)
DigitsValue(s) ==
    IF s = <<>> THEN 0 ELSE 10 * DigitsValue(SubSeq(s, 1, Len(s) - 1)) + DigitValue(s[Len(s)])

\* parseFloat on strings of digits, "-" and letters: an optional sign and
\* the longest run of digits after it are read and the rest of the string
\* is ignored; NaN when there is no digit to read
ParseFloat(s) ==
    LET neg == s # <<>> /\ s[1] = "-"
        rest == IF neg THEN Tail(s) ELSE s
        n == LeadingDigits(rest, 1)
    IN  IF n = 0 THEN [nan |-> TRUE, value |-> 0]
        ELSE [nan |-> FALSE,
              value |-> IF neg THEN 0 - DigitsValue(SubSeq(rest, 1, n))
                        ELSE DigitsValue(SubSeq(rest, 1, n))]

\* !lat: undefined or the empty string
Falsy(param) == param = Absent \/ param = <<>>

\* the rows the query may return
QueryRows == DistinctSeqs(PlanStores, 2)

HandlerInit ==
    /\ req \in [method : {"GET", "POST"}, lat : ParamValues, lng : ParamValues,
                radius : ParamValues]
    /\ hpc = "idle"
    /\ resStatus = 0
    /\ resBody = Null
    /\ queried = FALSE

apiOff ==
    /\ req = Null /\ hpc = "off" /\ resStatus = 0 /\ resBody = Null /\ queried = FALSE

\* handler up to a return or to the await of the query
HandleRequest ==
    /\ UNCHANGED <<decVars, solVars, planVars, locVars, runs>>
    /\ hpc = "idle"
    /\ LET latitude == ParseFloat(req.lat)
           longitude == ParseFloat(req.lng)
           radiusMiles == ParseFloat(IF req.radius = Absent THEN <<"1", "0">> ELSE req.radius)
           answer(status, message) ==
               /\ resStatus' = status
               /\ resBody' = [error |-> message]
               /\ hpc' = "done"
               /\ UNCHANGED queried
       IN  IF req.method # "GET" THEN answer(405, "Method not allowed")
           ELSE IF Falsy(req.lat) \/ Falsy(req.lng)
           THEN answer(400, "Missing required parameters: lat and lng are required")
           ELSE IF latitude.nan \/ longitude.nan
           THEN answer(400, "Invalid lat or lng parameters. Must be valid numbers.")
           ELSE IF latitude.value < -90 \/ latitude.value > 90
           THEN answer(400, "Latitude must be between -90 and 90 degrees")
           ELSE IF longitude.value < -180 \/ longitude.value > 180
           THEN answer(400, "Longitude must be between -180 and 180 degrees")
           ELSE IF radiusMiles.nan \/ radiusMiles.value <= 0
           THEN answer(400, "Radius must be a positive number")
           ELSE /\ queried' = TRUE
                /\ hpc' = "query"
                /\ UNCHANGED <<resStatus, resBody>>
    /\ UNCHANGED req

\* the query resolves with its rows
QueryResolve ==
    /\ UNCHANGED <<decVars, solVars, planVars, locVars, runs>>
    /\ hpc = "query"
    /\ \E rows \in QueryRows :
           resBody' = [success |-> TRUE, data |-> rows, count |-> Len(rows)]
    /\ resStatus' = 200
    /\ hpc' = "done"
    /\ UNCHANGED <<req, queried>>

\* the query rejects: catch
QueryReject ==
    /\ UNCHANGED <<decVars, solVars, planVars, locVars, runs>>
    /\ hpc = "query"
    /\ resBody' = [error |-> "Internal server error"]
    /\ resStatus' = 500
    /\ hpc' = "done"
    /\ UNCHANGED <<req, queried>>

DecodeInit == DecInit /\ solOff /\ planOff /\ locOff /\ runsOff /\ apiOff

DecodeNext ==
    \/ DecodeStep
    \/ DecodeReturn

SolverInit == SolveInit /\ decOff /\ planOff /\ locOff /\ runsOff /\ apiOff

SolverNext ==
    \/ SolveStep
    \/ SolveReturn

Init == PlanInit /\ decOff /\ solOff /\ locOff /\ runsOff /\ apiOff

Next ==
    \/ StartRequest
    \/ LookupFail
    \/ LookupSuccess
    \/ OptimizeFail
    \/ OptimizeRespond
    \/ DirectionsFail
    \/ DirectionsRespond
    \/ RealRouteFail
    \/ RealRouteRespond
    \/ StatsFail
    \/ StatsRespond

LocateStart == LocateInit /\ decOff /\ solOff /\ planOff /\ runsOff /\ apiOff

RaceStart == RaceInit /\ decOff /\ solOff /\ locOff /\ apiOff

HandlerStart == HandlerInit /\ decOff /\ solOff /\ planOff /\ locOff /\ runsOff

HandlerNext ==
    \/ HandleRequest
    \/ QueryResolve
    \/ QueryReject

RaceNext ==
    \/ RunStart
    \/ RunLookupFail
    \/ RunLookupSuccess
    \/ RunOptimizeFail
    \/ RunOptimizeRespond
    \/ RunDirectionsFail
    \/ RunDirectionsRespond
    \/ RunRealRouteFail
    \/ RunRealRouteRespond
    \/ RunStatsFail
    \/ RunStatsRespond

LocateNext ==
    \/ GetCurrentLocation
    \/ PositionObtained
    \/ PositionError

vars == <<decVars, solVars, planVars, locVars, runs, apiVars>>

Spec == Init /\ [][Next]_vars

\* One planning request whose start and whose lookup are certain to happen:
\* the effect of lines 730-735 calls fetchWaffleHouses, and the lookup is
\* taken to answer. The requests to the optimization and the directions
\* service carry no timeout option (lines 156-171, 276-287, 612-623) and
\* nothing else settles them, so no step of theirs is certain
LiveSpec ==
    /\ Init /\ [][Next]_vars
    /\ WF_vars(StartRequest)
    /\ WF_vars(LookupFail \/ LookupSuccess)

DecodeSpec == DecodeInit /\ [][DecodeNext]_vars

\* decodePolyline is synchronous: once called it runs until it returns
DecodeLiveSpec == DecodeInit /\ [][DecodeNext]_vars /\ WF_vars(DecodeNext)

LocateSpec == LocateStart /\ [][LocateNext]_vars

RaceSpec == RaceStart /\ [][RaceNext]_vars

HandlerSpec == HandlerStart /\ [][HandlerNext]_vars

SolverSpec == SolverInit /\ [][SolverNext]_vars

\* solveHungryForWaffles is synchronous: once called it runs on until it
\* returns, so a pass or the return that is possible is taken
SolverLiveSpec == SolverInit /\ [][SolverNext]_vars /\ WF_vars(SolverNext)

\* C3: when the greedy solver returns, its route has as many stops as there
\* are candidates and no candidate identifier occurs twice in it
C3_GreedyIsPermutation ==
    spc = "done" =>
        /\ Len(sRoute) = Len(sInput)
        /\ \A i, j \in 1..Len(sRoute) : i # j => sRoute[i].id # sRoute[j].id
        /\ \A i \in 1..Len(sInput) : \E j \in 1..Len(sRoute) : sRoute[j] = sInput[i]

\* the solver has returned a route of at least two stops whose first stop
\* was not the head of the candidate list
C3_Witness ==
    /\ spc = "done" /\ Len(sInput) >= 2
    /\ Len(sRoute) = Len(sInput) /\ sRoute[1] # sInput[1]

\* ---------------------------------------------------------------------
\* The polyline format as section 4.1 of the specification describes it:
\* a group continues while the character just read has bit 0x20 set
\* ---------------------------------------------------------------------
\* the values of the string read group by group; complete is FALSE when the
\* string ends inside a group
RECURSIVE RefParse(_, _, _)
RefParse(s, i, acc) ==
    IF i >= Len(s) THEN [values |-> acc, complete |-> TRUE]
    ELSE LET g == ReadGroupCont(s, i, 0, 0)
         IN  IF g.index > Len(s) \/ s[g.index] - 63 >= 32
             THEN [values |-> acc, complete |-> FALSE]
             ELSE RefParse(s, g.index, Append(acc, UnZigZag(g.result)))

RefValues(s) == RefParse(s, 0, <<>>)

\* the string ends inside a group, or after the first axis of a point
Truncated(s) == ~RefValues(s).complete \/ Len(RefValues(s).values) % 2 = 1

\* no group of several characters ends in '?', as no encoder writes one
Canonical(s) == \A i \in 2..Len(s) : s[i] = 63 => s[i - 1] - 63 < 32

WellFormed(s) ==
    /\ RefValues(s).complete
    /\ Len(RefValues(s).values) % 2 = 0
    /\ Canonical(s)

\* the running sums of the deltas, one point per pair of values
RECURSIVE RefPoints(_, _, _, _)
RefPoints(values, la, ln, acc) ==
    IF Len(values) < 2 THEN acc
    ELSE RefPoints(Tail(Tail(values)), la + values[1], ln + values[2],
                   Append(acc, <<la + values[1], ln + values[2]>>))

RefDecode(s) == RefPoints(RefValues(s).values, 0, 0, <<>>)

\* the candidates of the request, each exactly once
IsPermutationOf(r, list) ==
    /\ Len(r) = Len(list)
    /\ \A i \in 1..Len(list) : \E j \in 1..Len(r) : r[j] = list[i]
    /\ \A i, j \in 1..Len(r) : i # j => r[i] # r[j]

\* the optimizer answered with every job exactly once
WellBehavedOptimizer == IsPermutationOf(JobSteps(optSteps), [k \in 1..Len(data) |-> k])

\* ---------------------------------------------------------------------
\* Properties
\* ---------------------------------------------------------------------

\* C1: when the optimization request fails (transport error, non-success
\* response, missing or empty route list) for a non-empty candidate list,
\* the finished request has stored the route of the greedy solver
C1_FallbackToGreedy ==
    (pc = "done" /\ optOutcome = "failed" /\ Len(data) > 0) =>
        route = solveHungryForWaffles(start[1], start[2], data).route

\* C2: a request whose lookup returns no candidates ends with an empty
\* route and an empty geometry, without an error, and has sent nothing to
\* the optimization service nor to the directions service
C2_EmptyNoCalls ==
    (pc = "done" /\ lookup = "ok" /\ data = <<>>) =>
        /\ route = <<>>
        /\ realRouteCoordinates = <<>>
        /\ waffleHouseError = NoError
        /\ optCalls = 0
        /\ dirCalls = 0

\* a request with the key absent has finished on an empty lookup result
C2_Witness ==
    /\ pc = "done" /\ lookup = "ok" /\ data = <<>> /\ ~apiKey
    /\ isLoadingWaffleHouses = FALSE /\ waffleHouses = <<>>

\* C4: when the optimizer succeeded (with every job exactly once) and its
\* response has no usable geometry, the finished request has sent exactly
\* one request to the directions service, carrying the start and then the
\* route in order
C4_DirectionsExactlyOnce ==
    (/\ pc = "done" /\ optOutcome = "ok" /\ WellBehavedOptimizer
     /\ (optGeometry = <<>> \/ Abs(optGeometry[1][1]) < 1000)) =>
        /\ dirCalls = 1
        /\ dirArgs = <<DirectionsCoordinates(start, route)>>

\* C5: a planning request sends at most one request to the optimization
\* service and at most one to the directions service
C5_AtMostOneCallEach == optCalls <= 1 /\ dirCalls <= 1

\* C6: when the optimizer response has a step whose job is outside 1..n,
\* the finished request has no error and every stop of its route is one of
\* the candidates
C6_UnresolvedDropped ==
    (/\ pc = "done" /\ optOutcome \in {"ok", "threw"}
     /\ \E i \in 1..Len(optSteps) : optSteps[i] # NoJob /\ optSteps[i] \notin 1..Len(data)) =>
        /\ waffleHouseError = NoError
        /\ \A i \in 1..Len(route) : \E j \in 1..Len(data) : route[i] = data[j]

\* C7: a request with n > 0 candidates that finished with a route has every
\* candidate exactly once in it, whatever steps the optimizer returned
C7_RouteIsPermutation ==
    (pc = "done" /\ Len(data) > 0 /\ optOutcome = "ok" /\ waffleHouseError = NoError) =>
        IsPermutationOf(route, data)

\* C8: when the geometry decoded from the optimizer response starts with a
\* coordinate of magnitude below 1 (the optimizer having returned every job
\* exactly once), the stored geometry of the finished request is the
\* directions service's or empty
C8_SmallGeometryDiscarded ==
    (/\ pc = "done" /\ optOutcome = "ok" /\ WellBehavedOptimizer
     /\ optGeometry # <<>> /\ Abs(optGeometry[1][1]) < 1000) =>
        (realRouteCoordinates = <<>> \/ geomSource = "directions")

\* C9: decodePolyline does not return a point list for a truncated string
C9_TruncatedReportsError == Truncated(encoded) => dpc # "done"

\* C10: for a well-formed string the points decodePolyline returns are the
\* running sums of the deltas of the format, groups of several characters
\* included
C10_MatchesReference ==
    (dpc = "done" /\ WellFormed(encoded)) => poly = RefDecode(encoded)

\* ---------------------------------------------------------------------
\* Credential, failures and phases of one planning request
\* ---------------------------------------------------------------------
\* C11 as stated: whenever the credential is absent, a planning request
\* whose lookup succeeded ends reported as the configuration error, and no
\* request has been sent to the optimization or the directions service
C11_AbsentKeyAlwaysReported ==
    (pc = "done" /\ ~apiKey /\ lookup = "ok") =>
        /\ waffleHouseError = KeyNotFound
        /\ optCalls = 0 /\ dirCalls = 0

\* C11: with the credential absent no request is ever sent to the
\* optimization or the directions service, and a planning request whose
\* lookup returned at least one candidate ends reported as the
\* configuration error
C11_AbsentKeyReported ==
    ~apiKey =>
        /\ optCalls = 0 /\ dirCalls = 0
        /\ (pc = "done" /\ lookup = "ok" /\ Len(data) > 0) =>
               waffleHouseError = KeyNotFound

\* a request without the credential, for a non-empty candidate list, has
\* ended in the configuration error
C11_Witness ==
    /\ pc = "done" /\ ~apiKey /\ lookup = "ok" /\ Len(data) > 0
    /\ waffleHouseError = KeyNotFound /\ waffleHouses = <<>>

\* C12: with the credential present and the lookup answered, a planning
\* request never ends in the blocking error state
C12_NoHardFailure ==
    (pc = "done" /\ apiKey /\ lookup = "ok") => waffleHouseError = NoError

\* C13: a planning request ended by a failed directions request has no path
\* geometry, shows the optimizer's route with the optimizer's statistics,
\* carries the note about the straight-line fallback and no blocking error
C13_DirectionsFailureKeepsStatistics ==
    (pc = "done" /\ dirOutcome = "failed" /\ WellBehavedOptimizer) =>
        /\ realRouteCoordinates = <<>>
        /\ route = optimizedRoute
        /\ routeStats = optSummary
        /\ routeError # NoError
        /\ waffleHouseError = NoError

\* C14: a planning request ended by a successful directions request shows
\* the geometry of the directions service and its summary, converted
C14_DirectionsOutputReplaces ==
    (pc = "done" /\ dirOutcome = "ok" /\ WellBehavedOptimizer) =>
        /\ geomSource = "directions"
        /\ routeStats = dirSummary

\* ORDERING, GEOMETRY and DONE of a planning request, by the await it is at
Phase(at) ==
    CASE at \in {"idle", "lookup", "optimizing"} -> 1
      [] at \in {"directions", "realRoute", "stats"} -> 2
      [] OTHER -> 3

C18_NoEmptySuccess ==
    (optOutcome = "ok" /\ Len(data) > 0) => Len(optimizedRoute) > 0

\* ---------------------------------------------------------------------
\* The choice of the greedy solver
\* ---------------------------------------------------------------------
DistanceFrom(p, wh) == haversineDistance(p[1], p[2], wh.latitude, wh.longitude)

\* C20: the candidate a pass of the solver appends is at minimal distance
\* from the current position among the unvisited candidates, and every
\* unvisited candidate before it in the list is strictly farther
C20_NearestEarliest ==
    [][Len(sRoute') = Len(sRoute) + 1 =>
         \E k \in 1..Len(unvisited) :
            /\ unvisited[k] = sRoute'[Len(sRoute')]
            /\ \A j \in 1..Len(unvisited) :
                   DistanceFrom(current, unvisited[j]) >= DistanceFrom(current, unvisited[k])
            /\ \A j \in 1..(k - 1) :
                   DistanceFrom(current, unvisited[j]) > DistanceFrom(current, unvisited[k])]_vars

\* the solver has returned a route whose first stop had a later candidate at
\* the same distance from the start, and a second stop
C20_Witness ==
    /\ spc = "done" /\ Len(sRoute) >= 2
    /\ \E i, j \in 1..Len(sInput) :
        /\ i < j
        /\ sRoute[1] = sInput[i]
        /\ DistanceFrom(sStart, sInput[i]) = DistanceFrom(sStart, sInput[j])
        /\ \A k \in 1..Len(sInput) :
               DistanceFrom(sStart, sInput[k]) >= DistanceFrom(sStart, sInput[i])

\* C16: every planning request eventually completes with both loading
\* flags cleared
C16_EventuallyCompletes ==
    <>(pc = "done" /\ ~isLoadingWaffleHouses /\ ~isLoadingRoute)

\* ---------------------------------------------------------------------
\* The location after getCurrentLocation
\* ---------------------------------------------------------------------
\* C19: when getCurrentLocation has finished, isLoading is false and
\* userLocation has a numeric lat and lng; after the unsupported and the
\* error path these are the default coordinates and error is set
C19_LocationAlwaysNumeric ==
    lpc = "done" =>
        /\ ~isLoading
        /\ "lat" \in DOMAIN userLocation /\ "lng" \in DOMAIN userLocation
        /\ userLocation.lat \in Int /\ userLocation.lng \in Int
        /\ locPath \in {"unsupported", "error"} =>
               /\ userLocation.lat = BILOXI_COORDS[1]
               /\ userLocation.lng = BILOXI_COORDS[2]
               /\ error # NoError

\* ---------------------------------------------------------------------
\* Overlapping runs
\* ---------------------------------------------------------------------
AllRunsDone == \A r \in RunIds : runs[r].pc = "done"

\* C17: once all runs have finished and the run started last has ended
\* without error, the stored candidates, route, geometry and statistics are
\* the ones of that run
C17_LatestRunWins ==
    (AllRunsDone /\ runs[MaxRuns].outcome = "ok") =>
        /\ waffleHouses = runs[MaxRuns].data
        /\ route = runs[MaxRuns].optimizedRoute
        /\ realRouteCoordinates = runs[MaxRuns].shownGeometry
        /\ routeStats = runs[MaxRuns].shownStats

\* ---------------------------------------------------------------------
\* The distance and the passes of the greedy solver
\* ---------------------------------------------------------------------
\* the legs of a route added up from the first: start -> list[1] -> ... -> list[n]
RECURSIVE LegSum(_, _)
LegSum(p, list) ==
    IF list = <<>> THEN 0
    ELSE DistanceFrom(p, Head(list))
         + LegSum(<<Head(list).latitude, Head(list).longitude>>, Tail(list))

\* C21: the total distance the solver returns is the sum of the legs from
\* the start along the returned route, without a leg back to the start, and
\* an empty candidate list gives an empty route and distance 0
C21_TotalIsLegSum ==
    spc = "done" =>
        /\ sTotal = LegSum(sStart, sRoute)
        /\ Len(sInput) = 0 => (sRoute = <<>> /\ sTotal = 0)

\* the solver has returned a route of at least two stops ending away from
\* the start, with a positive total
C21_Witness ==
    /\ spc = "done" /\ Len(sRoute) >= 2 /\ sTotal > 0
    /\ DistanceFrom(sStart, sRoute[Len(sRoute)]) > 0
    /\ sTotal = LegSum(sStart, sRoute)

\* C22: every pass of the solver's loop removes exactly one candidate from
\* the unvisited list, and the solver eventually returns, after exactly as
\* many passes as there are candidates
C22_TerminatesAfterNPasses ==
    /\ [][iterations' = iterations + 1 =>
            /\ Len(unvisited') = Len(unvisited) - 1
            /\ iterations' <= Len(sInput)]_vars
    /\ <>(spc = "done" /\ iterations = Len(sInput) /\ unvisited = <<>>)

\* the solver has returned after three passes or more
C22_Witness ==
    spc = "done" /\ iterations >= 3 /\ iterations = Len(sInput) /\ unvisited = <<>>

\* ---------------------------------------------------------------------
\* Correlation of the optimizer's jobs
\* ---------------------------------------------------------------------
IsJob(step) == step # NoJob

\* C23: when the job-carrying steps of the optimizer response are a
\* permutation p of the positions of the candidates, the route returned by
\* getOptimizedWaffleRoute has one stop per candidate and its k-th stop is
\* the candidate sent as the job with identifier p[k]; steps without job
\* are skipped
C23_RouteFollowsJobIds ==
    (optOutcome = "ok" /\ WellBehavedOptimizer) =>
        LET p == SelectSeq(optSteps, IsJob)
        IN  /\ Len(optimizedRoute) = Len(data)
            /\ \A k \in 1..Len(p) :
                /\ optimizedRoute[k] = data[p[k]]
                /\ \E j \in 1..Len(data) :
                    /\ Jobs(data)[j].id = p[k]
                    /\ Jobs(data)[j].location =
                           <<optimizedRoute[k].longitude, optimizedRoute[k].latitude>>

\* an answered optimization request whose steps visit the second candidate
\* before the first
C23_Witness ==
    /\ optOutcome = "ok" /\ Len(data) = 2 /\ optSteps = <<2, 1>>
    /\ optimizedRoute = <<data[2], data[1]>>

\* ---------------------------------------------------------------------
\* Axis order at the directions service
\* ---------------------------------------------------------------------
HasTwo(entry) == Len(entry) >= 2

\* C24: every request sent to the directions service lists the start and
\* then the stops of the route in route order, each longitude first; the
\* geometry stored from a directions response is, latitude first and in the
\* order received, the entries of the response that have two components
C24_AxisOrder ==
    /\ \A i \in 1..Len(dirArgs) :
        /\ Len(dirArgs[i]) = Len(optimizedRoute) + 1
        /\ dirArgs[i][1] = <<start[2], start[1]>>
        /\ \A k \in 1..Len(optimizedRoute) :
               dirArgs[i][k + 1] = <<optimizedRoute[k].longitude, optimizedRoute[k].latitude>>
    /\ geomSource = "directions" =>
           LET kept == SelectSeq(dirCoords, HasTwo)
           IN  /\ Len(realRouteCoordinates) = Len(kept)
               /\ \A k \in 1..Len(kept) :
                      realRouteCoordinates[k] = <<kept[k][2], kept[k][1]>>

\* a request for a route of two stops has been sent and a response of two
\* different points has been stored
C24_Witness ==
    /\ dirCalls >= 1 /\ Len(dirArgs[1]) = 3
    /\ geomSource = "directions" /\ Len(dirCoords) = 2
    /\ Len(realRouteCoordinates) = 2 /\ realRouteCoordinates[1] # realRouteCoordinates[2]

\* no run is between its start and its finally block
NoRunInFlight == \A r \in RunIds : runs[r].pc \in {"idle", "done"}

\* every run started after the runs before it had finished
Sequential == \A r \in RunIds : runs[r].alone

\* C25: while a run of fetchWaffleHouses is in flight,
\* isLoadingWaffleHouses is true
C25_LoadingWhileInFlight ==
    ~NoRunInFlight => isLoadingWaffleHouses

\* C26: when every started run of fetchWaffleHouses, with the fetchRealRoute
\* it may have called, has finished, isLoadingWaffleHouses and
\* isLoadingRoute are false
C26_FlagsClearedWhenFinished ==
    NoRunInFlight => (~isLoadingWaffleHouses /\ ~isLoadingRoute)

\* two overlapping runs have finished, one in the catch of fetchWaffleHouses
\* and the last one in the catch of fetchRealRoute
C26_Witness ==
    /\ AllRunsDone /\ ~Sequential
    /\ \E r \in RunIds : runs[r].outcome = "error"
    /\ routeError # NoError /\ waffleHouseError # NoError
    /\ ~isLoadingWaffleHouses /\ ~isLoadingRoute

\* C27: with no request in flight, after requests made one after the other,
\* every stop of the stored route is in the stored candidate list, and
\* after a request ended in error no route, geometry or statistics are stored
C27_RouteWithinCandidates ==
    (NoRunInFlight /\ Sequential) =>
        /\ \A k \in 1..Len(route) : \E j \in 1..Len(waffleHouses) : waffleHouses[j] = route[k]
        /\ waffleHouseError # NoError =>
               (route = <<>> /\ realRouteCoordinates = <<>> /\ routeStats = Null)

\* C28: after requests made one after the other, when the last one has
\* ended without error and a path geometry other than the straight line
\* through its stops is stored, routeError is null
C28_NoStaleRouteError ==
    (AllRunsDone /\ Sequential /\ runs[MaxRuns].outcome = "ok"
        /\ Len(realRouteCoordinates) > 0
        /\ realRouteCoordinates # StraightLine(runs[MaxRuns].start, route)) =>
        routeError = NoError

\* ---------------------------------------------------------------------
\* Validation by the lookup handler
\* ---------------------------------------------------------------------
\* the string is a number: an optional "-" and then digits only, one at least
IsNumeral(s) ==
    /\ s # Absent
    /\ LET rest == IF s # <<>> /\ s[1] = "-" THEN Tail(s) ELSE s
       IN  rest # <<>> /\ \A i \in 1..Len(rest) : IsDigit(rest[i])

NumeralValue(s) ==
    IF s[1] = "-" THEN 0 - DigitsValue(Tail(s)) ELSE DigitsValue(s)

\* a GET with numeric lat and lng in range and a radius absent or numeric
\* and positive
ValidRequest ==
    /\ req.method = "GET"
    /\ IsNumeral(req.lat) /\ NumeralValue(req.lat) >= -90 /\ NumeralValue(req.lat) <= 90
    /\ IsNumeral(req.lng) /\ NumeralValue(req.lng) >= -180 /\ NumeralValue(req.lng) <= 180
    /\ req.radius = Absent \/ (IsNumeral(req.radius) /\ NumeralValue(req.radius) > 0)

\* C29: the handler sends the query only for a valid request; it answers
\* 405 to a method other than GET, 400 to a GET that is not valid, and to a
\* valid request 200 with success true and the number of rows as count, or
\* 500
C29_OnlyValidRequestsQueried ==
    /\ queried => ValidRequest
    /\ hpc = "done" =>
        /\ req.method # "GET" => resStatus = 405
        /\ (req.method = "GET" /\ ~ValidRequest) => resStatus = 400
        /\ ValidRequest => resStatus \in {200, 500}
        /\ resStatus = 200 => (resBody.success /\ resBody.count = Len(resBody.data))

\* ---------------------------------------------------------------------
\* Termination of decodePolyline
\* ---------------------------------------------------------------------
\* C30: decodePolyline terminates on every string: each of the two inner
\* loops of a pass reads one character, so that a pass moves the index
\* forward by two and pushes one point, and the call returns with as many
\* points as half the length of the string, rounded up
C30_DecoderTerminates ==
    /\ [][index' # index =>
            /\ ReadGroup(encoded, index, 0, 0).index = index + 1
            /\ ReadGroup(encoded, index + 1, 0, 0).index = index + 2
            /\ index' = index + 2
            /\ Len(poly') = Len(poly) + 1]_vars
    /\ <>(dpc = "done" /\ index >= Len(encoded)
          /\ Len(poly) = (Len(encoded) + 1) \div 2)

\* a string of odd length made of continuation characters has been decoded
\* in two passes
C30_Witness ==
    /\ dpc = "done"
    /\ Len(encoded) = 3
    /\ \A i \in 1..Len(encoded) : encoded[i] >= 95
    /\ Len(poly) = 2

====
